---------------------------- MODULE Spec2Model ----------------------------
(***************************************************************************)
(* A model of libpart's GPT codec (src/src/gpt.rs, src/src/util.rs) and of *)
(* its MBR codec (src/src/mbr.rs).                                         *)
(*                                                                         *)
(* A stream is a sequence of bytes (0..255); byte offset o is element o+1. *)
(* The stream behaves like std::io::Cursor<Vec<u8>> or a File: a seek past *)
(* the end succeeds, Read::read fills as many bytes as are left and        *)
(* reports no error, read_exact (byteorder's read_u16/u32/u64) fails with  *)
(* an I/O error when fewer bytes are left, a write past the end extends    *)
(* the stream with zeros.                                                  *)
(*                                                                         *)
(* A u32 checksum is kept as its four little-endian bytes (the checker's   *)
(* integers are 32-bit signed); u64 block numbers, counts and flags are    *)
(* natural numbers, exact below Huge.  Option<T> is a sequence of length   *)
(* 0 (None) or 1 (Some).  A String is the sequence of its code points.     *)
(***************************************************************************)
EXTENDS Integers, Sequences, FiniteSets, TLC

VARIABLES
    disk,       \* the stream handed to load and write
    options,    \* GPTOptions
    table,      \* Option<GPTTable>: the table the caller holds
    phase,      \* the caller's position in its script
    last,       \* the last call made and what it returned
    first,      \* Option<GPTTable>: the table as load returned it
    reloaded,   \* Option<Result<GPTTable>>: what load returns after write
    nops,       \* set_partition/delete_partition calls made so far
    scenario,   \* the image the stream started as and the edit made to it
    cin,        \* codec input (a UUID, a wire buffer or a name)
    cwire,      \* codec wire bytes
    cout,       \* codec output
    cstage      \* codec position

vars == <<disk, options, table, phase, last, first, reloaded, nops, scenario,
          cin, cwire, cout, cstage>>

gptvars == <<disk, options, table, phase, last, first, reloaded, nops, scenario>>
codecvars == <<cin, cwire, cout, cstage>>

---------------------------------------------------------------------------
(* Bounds of the model *)

\* set_partition/delete_partition calls per run
MaxOps == 2
\* ids passed to set_partition/delete_partition are 0..MaxId
MaxId == 4
\* UUID inputs are the byte patterns (a*i + b) % 256, a in 0..MaxUuidA, b in 0..MaxUuidB
MaxUuidA == 7
MaxUuidB == 7
\* names are up to MaxNameLen characters long
MaxNameLen == 38

---------------------------------------------------------------------------
(* Bytes, buffers and streams *)

Min(a, b) == IF a < b THEN a ELSE b

Zeros(n) == [i \in 1..n |-> 0]

\* buf[off .. off+n) of a buffer that holds those bytes
Slice(buf, off, n) == SubSeq(buf, off + 1, off + n)

\* buf with bytes written at offset off (the buffer is long enough)
Patch(buf, off, bytes) ==
    SubSeq(buf, 1, off) \o bytes \o SubSeq(buf, off + Len(bytes) + 1, Len(buf))

\* the concatenation of the sequences ss[lo], ..., ss[hi], split in halves to
\* keep the evaluation shallow
RECURSIVE ConcatFrom(_, _, _)
ConcatFrom(ss, lo, hi) ==
    IF lo > hi THEN <<>>
    ELSE IF lo = hi THEN ss[lo]
    ELSE ConcatFrom(ss, lo, (lo + hi) \div 2) \o ConcatFrom(ss, (lo + hi) \div 2 + 1, hi)

\* Read::read(&mut buf) at position pos with buf = [0u8; n]: the bytes that
\* are left are copied, the rest of buf keeps its zeros, no error
ReadLen(d, pos, n) == IF Len(d) >= pos + n THEN n
                      ELSE IF Len(d) > pos THEN Len(d) - pos ELSE 0
ReadBuf(d, pos, n) ==
    SubSeq(d, pos + 1, pos + ReadLen(d, pos, n)) \o Zeros(n - ReadLen(d, pos, n))

\* read_exact of n bytes at pos succeeds (byteorder's read_u16/u32/u64)
ExactOK(d, pos, n) == Len(d) >= pos + n

\* seek(Start(off)) then write(bytes) on a growable stream
WriteAt(d, off, bytes) ==
    IF off >= Len(d) THEN d \o Zeros(off - Len(d)) \o bytes
    ELSE SubSeq(d, 1, off) \o bytes \o SubSeq(d, off + Len(bytes) + 1, Len(d))

\* values of 2^30 and above are all represented by Huge
Huge == 64 * 16777216

\* ReadBytesExt::read_uN::<LittleEndian>: the value of little-endian bytes
LEValue(b) ==
    IF (\E i \in 5..Len(b) : b[i] # 0) \/ (Len(b) >= 4 /\ b[4] >= 64) THEN Huge
    ELSE b[1] + (IF Len(b) >= 2 THEN 256 * b[2] ELSE 0)
              + (IF Len(b) >= 3 THEN 65536 * b[3] ELSE 0)
              + (IF Len(b) >= 4 THEN 16777216 * b[4] ELSE 0)

\* WriteBytesExt::write_uN::<LittleEndian>: n little-endian bytes of v < Huge
LEBytes(v, n) ==
    [i \in 1..n |-> IF i = 1 THEN v % 256
                    ELSE IF i = 2 THEN (v \div 256) % 256
                    ELSE IF i = 3 THEN (v \div 65536) % 256
                    ELSE IF i = 4 THEN (v \div 16777216) % 256
                    ELSE 0]

---------------------------------------------------------------------------
(* CRC-32 (checksum::crc32::Crc32): reflected polynomial EDB88320, initial  *)
(* value and final xor FFFFFFFF; a value is its four little-endian bytes.  *)

Bit(a, k) == (a \div k) % 2
XorBit(a, b, k) == k * ((Bit(a, k) + Bit(b, k)) % 2)
Xor4 == [a \in 0..15 |-> [b \in 0..15 |->
            XorBit(a, b, 1) + XorBit(a, b, 2) + XorBit(a, b, 4) + XorBit(a, b, 8)]]
Xor8(a, b) == 16 * Xor4[a \div 16][b \div 16] + Xor4[a % 16][b % 16]
Xor32(a, b) == <<Xor8(a[1], b[1]), Xor8(a[2], b[2]), Xor8(a[3], b[3]), Xor8(a[4], b[4])>>
Shr1(c) == << (c[1] \div 2) + 128 * (c[2] % 2), (c[2] \div 2) + 128 * (c[3] % 2),
              (c[3] \div 2) + 128 * (c[4] % 2), c[4] \div 2 >>
CrcPoly == <<32, 131, 184, 237>>
CrcOnes == <<255, 255, 255, 255>>

RECURSIVE CrcBits(_, _)
CrcBits(c, k) ==
    IF k = 0 THEN c
    ELSE CrcBits(IF c[1] % 2 = 1 THEN Xor32(Shr1(c), CrcPoly) ELSE Shr1(c), k - 1)

CrcTable == [i \in 0..255 |-> CrcBits(<<i, 0, 0, 0>>, 8)]

CrcStep(c, b) ==
    LET t == CrcTable[Xor8(c[1], b)]
    IN <<Xor8(t[1], c[2]), Xor8(t[2], c[3]), Xor8(t[3], c[4]), t[4]>>

\* the register after bytes buf[lo..hi], split in halves to keep the
\* evaluation shallow (the test on c[1] makes the checker evaluate c first)
RECURSIVE CrcRange(_, _, _, _)
CrcRange(c, buf, lo, hi) ==
    IF lo > hi \/ c[1] < 0 THEN c
    ELSE IF lo = hi THEN CrcStep(c, buf[lo])
    ELSE LET mid == (lo + hi) \div 2
         IN CrcRange(CrcRange(c, buf, lo, mid), buf, mid + 1, hi)

CRC32(buf) == Xor32(CrcRange(CrcOnes, buf, 1, Len(buf)), CrcOnes)

---------------------------------------------------------------------------
(* Option and Result *)

None == <<>>
Some(x) == <<x>>
IsSome(o) == Len(o) = 1
IsNone(o) == Len(o) = 0

\* need: the end offset of the furthest read the call asked for
Ok(v, need) == [kind |-> "Ok", val |-> <<v>>, need |-> need]
Err(k, need) == [kind |-> k, val |-> <<>>, need |-> need]

---------------------------------------------------------------------------
(* UUID codec: gpt.rs read_uuid, write_uuid, swap_endian, cp *)

\* cp: output with its first min(len) elements taken from input
cp(input, output) ==
    [i \in 1..Len(output) |-> IF i <= Len(input) THEN input[i] ELSE output[i]]

\* a faulty variant: copies instead of reversing
swap_endian_copy(input, output) ==
    [i \in 1..Len(output) |-> IF i <= Len(input) THEN input[i] ELSE output[i]]

\* swap_endian: output[len-1-i] = input[i] for i in 0..len
swap_endian(input, output) ==
    LET len == Min(Len(input), Len(output))
    IN [j \in 1..Len(output) |-> IF j <= len THEN input[len + 1 - j] ELSE output[j]]

\* the three swaps both codecs apply to the copy e of buf
SwapFields(buf, e) ==
    LET s1 == Patch(e, 0, swap_endian(Slice(buf, 0, 4), Slice(e, 0, 4)))
        s2 == Patch(s1, 4, swap_endian(Slice(buf, 4, 2), Slice(s1, 4, 2)))
    IN Patch(s2, 6, swap_endian(Slice(buf, 6, 2), Slice(s2, 6, 2)))

\* read_uuid on the 16-byte buffer read from the stream; UUID::from_bytes
\* accepts every 16-byte slice
read_uuid(buf) == SwapFields(buf, cp(buf, Zeros(16)))

\* write_uuid: the 16 bytes written for uuid
write_uuid(uuid) == SwapFields(uuid, cp(uuid, Zeros(16)))

NilUuid == Zeros(16)
is_nil(uuid) == uuid = NilUuid

---------------------------------------------------------------------------
(* Name codec: gpt.rs write_utf16_le, read_utf16_le, and the standard     *)
(* library's str::encode_utf16 and String::from_utf16                     *)

IsHighSurrogate(u) == u >= 55296 /\ u <= 56319
IsLowSurrogate(u) == u >= 56320 /\ u <= 57343

\* str::encode_utf16 of one char
EncodeChar(c) ==
    IF c < 65536 THEN <<c>>
    ELSE <<55296 + ((c - 65536) \div 1024), 56320 + ((c - 65536) % 1024)>>

\* str::encode_utf16
encode_utf16(s) == ConcatFrom([i \in 1..Len(s) |-> EncodeChar(s[i])], 1, Len(s))

\* Iterator::take(n)
Take(s, n) == SubSeq(s, 1, Min(n, Len(s)))

\* the char that starts at unit i of well-formed UTF-16 (none at a low surrogate)
DecodeAt(units, i) ==
    IF IsLowSurrogate(units[i]) THEN <<>>
    ELSE IF IsHighSurrogate(units[i])
         THEN <<65536 + (units[i] - 55296) * 1024 + (units[i + 1] - 56320)>>
    ELSE <<units[i]>>

\* String::from_utf16: Some(string), or None on an unpaired surrogate
from_utf16(units) ==
    IF \A i \in 1..Len(units) :
          /\ IsHighSurrogate(units[i]) => i < Len(units) /\ IsLowSurrogate(units[i + 1])
          /\ IsLowSurrogate(units[i]) => i > 1 /\ IsHighSurrogate(units[i - 1])
    THEN Some(ConcatFrom([i \in 1..Len(units) |-> DecodeAt(units, i)], 1, Len(units)))
    ELSE None

\* write_u16_buf::<LittleEndian>
write_u16_buf(buf) ==
    LET pairs == [i \in 1..Len(buf) |-> <<buf[i] % 256, buf[i] \div 256>>]
    IN ConcatFrom(pairs, 1, Len(buf))

\* read_u16_buf::<LittleEndian> on 2*n bytes
read_u16_buf(bytes, n) == [i \in 1..n |-> bytes[2 * i - 1] + 256 * bytes[2 * i]]

\* write_utf16_le: the bytes written for the name s
write_utf16_le(s) ==
    LET buf == Take(encode_utf16(s), 36)
        buf2 == cp(buf, Zeros(36))
    IN write_u16_buf(buf2)

\* str::find('\0') and the slice up to it
CutAtNul(s) ==
    IF \E i \in 1..Len(s) : s[i] = 0
    THEN SubSeq(s, 1, (CHOOSE i \in 1..Len(s) : s[i] = 0 /\ \A j \in 1..(i - 1) : s[j] # 0) - 1)
    ELSE s

\* read_utf16_le on the 72 bytes read (all 36 read_u16 succeeded):
\* Some(name), or None for the UTF16Error
read_utf16_le(bytes, ignore_err) ==
    LET buf == read_u16_buf(bytes, 36)
        dec == from_utf16(buf)
    IN IF IsNone(dec)
       THEN (IF ignore_err THEN Some(<<>>) ELSE None)
       ELSE Some(CutAtNul(dec[1]))

---------------------------------------------------------------------------
(* Block arithmetic: util.rs *)

\* Block::to_bytes
to_bytes(block, sector_size) == block * sector_size

\* Block::from_bytes: Some(block) or None
from_bytes(bytes, sector_size) ==
    IF bytes % sector_size = 0 THEN Some(bytes \div 512) ELSE None

---------------------------------------------------------------------------
(* GPTTable::load *)

GPT_MAGIC == <<69, 70, 73, 32, 80, 65, 82, 84>>
GPT_REVISION == <<0, 0, 1, 0>>

\* PartitionEntry::empty
empty == [part_type |-> NilUuid, part_id |-> NilUuid, start |-> 0, end |-> 0,
          flags |-> 0, name |-> <<>>]

\* the body of the loop of load for the entry at offset e:
\* Ok(slot), IOError or UTF16Error
LoadEntry(d, o, e) ==
    LET part_type == read_uuid(ReadBuf(d, e, 16))
        p1 == e + ReadLen(d, e, 16)
        part_id == read_uuid(ReadBuf(d, p1, 16))
        p2 == p1 + ReadLen(d, p1, 16)
        part_start == LEValue(Slice(d, p2, 8))
        part_end == LEValue(Slice(d, p2 + 8, 8))
        part_flags == LEValue(Slice(d, p2 + 16, 8))
        part_label == read_utf16_le(Slice(d, p2 + 24, 72), o.ignore_utf16_errors)
    IN IF ~ExactOK(d, p2, 8) THEN Err("IOError", p2 + 8)
       ELSE IF ~ExactOK(d, p2 + 8, 8) THEN Err("IOError", p2 + 16)
       ELSE IF ~ExactOK(d, p2 + 16, 8) THEN Err("IOError", p2 + 24)
       ELSE IF ~ExactOK(d, p2 + 24, 72) THEN Err("IOError", p2 + 96)
       ELSE IF IsNone(part_label) THEN Err("UTF16Error", p2 + 96)
       ELSE IF is_nil(part_type) THEN Ok(None, p2 + 96)
       ELSE Ok(Some([part_type |-> part_type, part_id |-> part_id,
                     start |-> part_start, end |-> part_end,
                     flags |-> part_flags, name |-> part_label[1]]), p2 + 96)

\* for _ in 0..part_count: the slots of entries lo..hi-1 of the array at
\* array_pos, or the first error; split in halves to keep the evaluation shallow
RECURSIVE LoadEntries(_, _, _, _, _)
LoadEntries(d, o, array_pos, lo, hi) ==
    IF lo >= hi THEN Ok(<<>>, 0)
    ELSE IF hi = lo + 1
    THEN LET r == LoadEntry(d, o, array_pos + 128 * lo)
         IN IF r.kind # "Ok" THEN r ELSE Ok(<<r.val[1]>>, r.need)
    ELSE LET mid == lo + (hi - lo) \div 2
             left == LoadEntries(d, o, array_pos, lo, mid)
             right == LoadEntries(d, o, array_pos, mid, hi)
         IN IF left.kind # "Ok" THEN left
            ELSE IF right.kind # "Ok" THEN right
            ELSE Ok(left.val[1] \o right.val[1], right.need)

\* lines 230-241: the header re-read with its checksum field zeroed
header_csum_ok(d, block_size, hlen, crc) ==
    LET buf0 == ReadBuf(d, block_size, hlen)
        buf == Patch(buf0, 16, cp(<<0, 0, 0, 0>>, Slice(buf0, 16, 4)))
    IN CRC32(buf) = crc

\* a faulty variant: the partition table checksum is not verified
array_csum_ok_skip(d, block_size, part_start, part_size, part_count, part_checksum) == TRUE

\* lines 244-253: the partition table re-read
array_csum_ok(d, block_size, part_start, part_size, part_count, part_checksum) ==
    LET buf == ReadBuf(d, to_bytes(part_start, block_size), part_size * part_count)
    IN CRC32(buf) = part_checksum

\* a faulty variant: any 8 bytes starting with "EFI " pass
magic_ok_prefix(buf) == Slice(buf, 0, 4) = Slice(GPT_MAGIC, 0, 4)

magic_ok(buf) == buf = GPT_MAGIC
version_ok(buf) == buf = GPT_REVISION
hlen_ok(hlen) == hlen = 92
part_start_ok(part_start) == part_start = 2
part_size_ok(part_size) == part_size = 128

\* GPTTable::load(read, options): Ok(table) or the error kind
load(d, o) ==
    LET block_size == o.block_size
        magic == ReadBuf(d, block_size, 8)
        p1 == block_size + ReadLen(d, block_size, 8)
        rev == ReadBuf(d, p1, 4)
        p2 == p1 + ReadLen(d, p1, 4)
        hlen == LEValue(Slice(d, p2, 4))
        crc == Slice(d, p2 + 4, 4)
        mypos == LEValue(Slice(d, p2 + 12, 8))
        otherpos == LEValue(Slice(d, p2 + 20, 8))
        first_usable == LEValue(Slice(d, p2 + 28, 8))
        last_usable == LEValue(Slice(d, p2 + 36, 8))
        uuid == read_uuid(ReadBuf(d, p2 + 44, 16))
        p3 == p2 + 44 + ReadLen(d, p2 + 44, 16)
        part_start == LEValue(Slice(d, p3, 8))
        part_count == LEValue(Slice(d, p3 + 8, 4))
        part_size == LEValue(Slice(d, p3 + 12, 4))
        part_checksum == Slice(d, p3 + 16, 4)
        array_pos == to_bytes(part_start, block_size)
        entries == LoadEntries(d, o, array_pos, 0, part_count)
    IN IF ~magic_ok(magic) THEN Err("NoTable", block_size + 8)
       ELSE IF ~version_ok(rev) THEN Err("InvalidVersion", p1 + 4)
       ELSE IF ~ExactOK(d, p2, 4) THEN Err("IOError", p2 + 4)
       ELSE IF ~hlen_ok(hlen) THEN Err("InvalidHeader", p2 + 4)
       ELSE IF ~ExactOK(d, p2 + 4, 4) THEN Err("IOError", p2 + 8)
       ELSE IF ~ExactOK(d, p2 + 8, 4) THEN Err("IOError", p2 + 12)
       ELSE IF ~ExactOK(d, p2 + 12, 8) THEN Err("IOError", p2 + 20)
       ELSE IF ~ExactOK(d, p2 + 20, 8) THEN Err("IOError", p2 + 28)
       ELSE IF ~ExactOK(d, p2 + 28, 8) THEN Err("IOError", p2 + 36)
       ELSE IF ~ExactOK(d, p2 + 36, 8) THEN Err("IOError", p2 + 44)
       ELSE IF ~ExactOK(d, p3, 8) THEN Err("IOError", p3 + 8)
       ELSE IF ~part_start_ok(part_start) THEN Err("InvalidHeader", p3 + 8)
       ELSE IF ~ExactOK(d, p3 + 8, 4) THEN Err("IOError", p3 + 12)
       ELSE IF ~ExactOK(d, p3 + 12, 4) THEN Err("IOError", p3 + 16)
       ELSE IF ~part_size_ok(part_size) THEN Err("InvalidHeader", p3 + 16)
       ELSE IF ~ExactOK(d, p3 + 16, 4) THEN Err("IOError", p3 + 20)
       ELSE IF ~o.ignore_csum /\ ~header_csum_ok(d, block_size, hlen, crc)
            THEN Err("ChecksumError", p3 + 20)
       ELSE IF ~o.ignore_csum
               /\ ~array_csum_ok(d, block_size, part_start, part_size, part_count, part_checksum)
            THEN Err("ChecksumError", IF part_count = 0 THEN p3 + 20
                                      ELSE array_pos + part_size * part_count)
       ELSE IF entries.kind # "Ok" THEN entries
       ELSE Ok([primary_gpt |-> mypos, backup_gpt |-> otherpos,
                first_usable |-> first_usable, last_usable |-> last_usable,
                gpt_uuid |-> uuid, partitions |-> entries.val[1], checksum |-> crc],
               IF entries.need > p3 + 20 THEN entries.need ELSE p3 + 20)

---------------------------------------------------------------------------
(* GPTTable::write *)

\* GPTTable::ptable_len before its expect(): None is the panic
ptable_len(pcount, o) == from_bytes(pcount * 128, o.block_size)

\* the 128 bytes written for one entry (lines 366-371)
EntryBytes(p) ==
    write_uuid(p.part_type) \o write_uuid(p.part_id) \o LEBytes(p.start, 8)
    \o LEBytes(p.end, 8) \o LEBytes(p.flags, 8) \o write_utf16_le(p.name)

\* the partition table buffer (lines 353-372)
PartTab(partitions) ==
    LET ents == [i \in 1..Len(partitions) |->
                   EntryBytes(IF IsSome(partitions[i]) THEN partitions[i][1] ELSE empty)]
    IN ConcatFrom(ents, 1, Len(partitions))

\* a faulty variant: the header counts the partitions in use
header_count_in_use(partitions) ==
    Cardinality({i \in 1..Len(partitions) : IsSome(partitions[i])})

\* line 347: self.partitions.len() as u32
header_count(partitions) == Len(partitions)

\* the 92-byte header buffer with its checksum patched in (lines 308-349, 377, 383-389)
HeaderBytes(mypos, otherpos, first_usable, last_usable, gpt_uuid, part_start, count, part_crc) ==
    LET gpt == GPT_MAGIC \o GPT_REVISION \o LEBytes(92, 4) \o LEBytes(0, 4) \o LEBytes(0, 4)
               \o LEBytes(mypos, 8) \o LEBytes(otherpos, 8)
               \o LEBytes(first_usable, 8) \o LEBytes(last_usable, 8)
               \o write_uuid(gpt_uuid) \o LEBytes(part_start, 8)
               \o LEBytes(count, 4) \o LEBytes(128, 4) \o part_crc
    IN Patch(gpt, 16, CRC32(gpt))

\* GPTTable::write_gpt: the stream afterwards and what was handed to
\* write_all (the block the partition table went to, its length, the count
\* field of the header, the header and table buffers), or the panic of
\* ptable_len's expect() or of the block subtraction, both raised before
\* anything is written
write_gpt(self, d, o, primary) ==
    LET mypos == IF primary THEN self.primary_gpt ELSE self.backup_gpt
        otherpos == IF primary THEN self.backup_gpt ELSE self.primary_gpt
        plen == ptable_len(Len(self.partitions), o)
        part_start == IF primary THEN 2 ELSE self.backup_gpt - plen[1]
        part_tab == PartTab(self.partitions)
        gpt == HeaderBytes(mypos, otherpos, self.first_usable, self.last_usable,
                           self.gpt_uuid, part_start, header_count(self.partitions),
                           CRC32(part_tab))
        d1 == WriteAt(d, to_bytes(part_start, o.block_size), part_tab)
        d2 == WriteAt(d1, to_bytes(mypos, o.block_size), Zeros(o.block_size))
        d3 == WriteAt(d2, to_bytes(mypos, o.block_size), gpt)
    IN IF ~primary /\ IsNone(plen) THEN [kind |-> "Panic", disk |-> d, emitted |-> <<>>]
       ELSE IF ~primary /\ self.backup_gpt < plen[1]
            THEN [kind |-> "Panic", disk |-> d, emitted |-> <<>>]
       ELSE [kind |-> "Ok", disk |-> d3,
             emitted |-> <<[at |-> part_start, count |-> LEValue(Slice(gpt, 80, 4)),
                            bytes |-> Len(part_tab), hdr |-> gpt, tab |-> part_tab]>>]

\* GPTTable::write: the primary copy, then the backup copy
write(self, d, o) ==
    LET r1 == write_gpt(self, d, o, TRUE)
        r2 == write_gpt(self, r1.disk, o, FALSE)
    IN IF r1.kind # "Ok" THEN r1
       ELSE [kind |-> r2.kind, disk |-> r2.disk, emitted |-> r1.emitted \o r2.emitted]

---------------------------------------------------------------------------
(* The accessors and mutators of GPTTable *)

\* GPTTable::part_count
part_count(self) == Cardinality({i \in 1..Len(self.partitions) : IsSome(self.partitions[i])})

\* the loop of next_id from index i on
RECURSIVE NextIdFrom(_, _)
NextIdFrom(partitions, i) ==
    IF i > Len(partitions) THEN None
    ELSE IF IsNone(partitions[i]) THEN Some(i - 1)
    ELSE NextIdFrom(partitions, i + 1)

\* a faulty variant: returns the first slot in use
next_id_in_use(self) ==
    IF \E i \in 1..Len(self.partitions) : IsSome(self.partitions[i])
    THEN Some((CHOOSE i \in 1..Len(self.partitions) :
                  IsSome(self.partitions[i])
                  /\ \A j \in 1..(i - 1) : IsNone(self.partitions[j])) - 1)
    ELSE None

\* GPTTable::next_id
next_id(self) == NextIdFrom(self.partitions, 1)

\* GPTTable::set_partition.  With no slots, partitions.len() - 1 underflows:
\* a debug build panics on the subtraction, a release build wraps to
\* usize::MAX, passes the test and panics on the index
set_partition(self, id, part) ==
    IF Len(self.partitions) = 0 THEN [kind |-> "Panic", table |-> self]
    ELSE IF id > Len(self.partitions) - 1 THEN [kind |-> "InvalidID", table |-> self]
    ELSE [kind |-> "Ok", table |-> [self EXCEPT !.partitions[id + 1] = Some(part)]]

\* GPTTable::delete_partition, with the same underflow
delete_partition(self, id) ==
    IF Len(self.partitions) = 0 THEN [kind |-> "Panic", table |-> self]
    ELSE IF id > Len(self.partitions) - 1 THEN [kind |-> "InvalidID", table |-> self]
    ELSE [kind |-> "Ok", table |-> [self EXCEPT !.partitions[id + 1] = None]]

---------------------------------------------------------------------------
(* The streams the runs start from *)

UuidPattern(a, b) == [i \in 1..16 |-> (a * i + b) % 256]

\* "root", "home", and the entry handed to set_partition
PartRoot == [part_type |-> UuidPattern(17, 0), part_id |-> UuidPattern(3, 1),
             start |-> 3, end |-> 3, flags |-> 1, name |-> <<114, 111, 111, 116>>]
PartHome == [part_type |-> UuidPattern(5, 2), part_id |-> UuidPattern(7, 9),
             start |-> 3, end |-> 3, flags |-> 0, name |-> <<104, 111, 109, 101>>]
NewPart == [part_type |-> UuidPattern(1, 160), part_id |-> UuidPattern(2, 4),
            start |-> 3, end |-> 3, flags |-> 4, name |-> <<110, 101, 119>>]
\* an entry whose type UUID is nil
NilPart == [NewPart EXCEPT !.part_type = NilUuid]

\* blocks taken by an array of n entries
ArrayBlocks(n, bs) == (n * 128 + bs - 1) \div bs

\* an image of nblocks blocks: primary header in block 1, the entries from
\* block 2, the backup array right before the backup header in the last block
MkImage(bs, nblocks, entries) ==
    LET n == Len(entries)
        L == nblocks - 1
        bstart == L - ArrayBlocks(n, bs)
        tab == ConcatFrom([i \in 1..n |-> EntryBytes(entries[i])], 1, n)
        uuid == UuidPattern(9, 33)
        fu == 2 + ArrayBlocks(n, bs)
        lu == bstart - 1
        d0 == Zeros(nblocks * bs)
        d1 == WriteAt(d0, bs, HeaderBytes(1, L, fu, lu, uuid, 2, n, CRC32(tab)))
        d2 == WriteAt(d1, 2 * bs, tab)
        d3 == WriteAt(d2, bstart * bs, tab)
    IN WriteAt(d3, L * bs, HeaderBytes(L, 1, fu, lu, uuid, bstart, n, CRC32(tab)))

DefaultOptions(bs) == [block_size |-> bs, ignore_csum |-> FALSE, ignore_utf16_errors |-> FALSE]

\* the name field of an entry is zero from its first NUL unit on
NameCanonical(bytes) ==
    LET u == read_u16_buf(bytes, 36)
    IN \A i \in 1..36 : u[i] = 0 => \A j \in i..36 : u[j] = 0

\* a well-formed image: accepted by load with every check enabled, the header
\* in block 1 naming itself, reserved bytes zero, the entry array a whole
\* number of blocks, unused entries zeroed and names zero-padded, the backup
\* header in the last block with a copy of the array right before it
WellFormedAs(d, bs, r) ==
    LET t == r.val[1]
        n == Len(r.val[1].partitions)
        blocks == ArrayBlocks(Len(r.val[1].partitions), bs)
    IN /\ r.kind = "Ok"
       /\ t.primary_gpt = 1
       /\ Slice(d, bs + 20, 4) = <<0, 0, 0, 0>>
       /\ (n * 128) % bs = 0
       /\ \A i \in 0..(n - 1) :
             LET e == Slice(d, 2 * bs + 128 * i, 128)
             IN /\ is_nil(read_uuid(Slice(e, 0, 16))) => e = Zeros(128)
                /\ NameCanonical(Slice(e, 56, 72))
       /\ Len(d) = (t.backup_gpt + 1) * bs
       /\ t.backup_gpt - blocks >= 2 + blocks
       /\ t.first_usable = 2 + blocks
       /\ t.last_usable = t.backup_gpt - blocks - 1
       /\ Slice(d, (t.backup_gpt - blocks) * bs, n * 128) = Slice(d, 2 * bs, n * 128)

\* r is what load returns for the image with every check enabled
WellFormed(d, bs) == WellFormedAs(d, bs, load(d, DefaultOptions(bs)))

\* an unused entry (nil type UUID) that still carries an id and a name
StalePart == [PartHome EXCEPT !.part_type = NilUuid]

Images ==
    { [name |-> "four", bs |-> 512, disk |-> MkImage(512, 6, <<PartRoot, empty, PartHome, empty>>)],
      [name |-> "none", bs |-> 512, disk |-> MkImage(512, 4, <<>>)],
      [name |-> "three", bs |-> 512, disk |-> MkImage(512, 6, <<PartRoot, StalePart, empty>>)],
      [name |-> "sixteen", bs |-> 2048,
       disk |-> MkImage(2048, 6, <<PartRoot>> \o [i \in 1..15 |-> empty])] }

NoCall == [op |-> "none", id |-> 0, kind |-> "Ok", pre |-> <<>>, ret |-> <<>>]

CodecIdle == cin = <<>> /\ cwire = <<>> /\ cout = <<>> /\ cstage = "off"

\* the codecs on their own: no stream, no table
GptIdle ==
    /\ disk = <<>>
    /\ options = DefaultOptions(512)
    /\ scenario = [name |-> "codec", wellformed |-> FALSE, count |-> 0, edit |-> <<>>]
    /\ table = None
    /\ first = None
    /\ reloaded = None
    /\ phase = "off"
    /\ last = NoCall
    /\ nops = 0

\* a caller about to load one of the images named in names, with the checks
\* switched off as csums and utfs allow
InitWith(names, csums, utfs) ==
    /\ \E img \in Images, ic \in csums, iu \in utfs :
          /\ img.name \in names
          /\ disk = img.disk
          /\ options = [block_size |-> img.bs, ignore_csum |-> ic,
                        ignore_utf16_errors |-> iu]
          /\ scenario = [name |-> img.name, wellformed |-> WellFormed(img.disk, img.bs),
                         count |-> LEValue(Slice(img.disk, img.bs + 80, 4)),
                         edit |-> <<>>]
    /\ table = None
    /\ first = None
    /\ reloaded = None
    /\ phase = "fresh"
    /\ last = NoCall
    /\ nops = 0
    /\ CodecIdle

Init == InitWith({"four", "none", "three", "sixteen"}, {FALSE}, {FALSE})

---------------------------------------------------------------------------
(* The caller: load, then set_partition/delete_partition/next_id/part_count, *)
(* then write, then load again.  \E r \in {e} names the value e returned.    *)

Load ==
    /\ phase \in {"fresh", "staged"}
    /\ \E r \in {load(disk, options)} :
          /\ table' = r.val
          /\ first' = r.val
          /\ phase' = IF r.kind = "Ok" THEN "loaded" ELSE "failed"
          /\ last' = [op |-> "load", id |-> 0, kind |-> r.kind, pre |-> <<>>,
                      ret |-> <<r.need>>]
    /\ UNCHANGED <<disk, options, reloaded, nops, scenario, codecvars>>

SetPartition(id, part) ==
    /\ phase = "loaded"
    /\ nops < MaxOps
    /\ \E r \in {set_partition(table[1], id, part)} :
          /\ table' = Some(r.table)
          /\ phase' = IF r.kind = "Panic" THEN "panicked" ELSE "loaded"
          /\ last' = [op |-> "set_partition", id |-> id, kind |-> r.kind,
                      pre |-> table[1].partitions, ret |-> <<>>]
    /\ nops' = nops + 1
    /\ UNCHANGED <<disk, options, first, reloaded, scenario, codecvars>>

DeletePartition(id) ==
    /\ phase = "loaded"
    /\ nops < MaxOps
    /\ \E r \in {delete_partition(table[1], id)} :
          /\ table' = Some(r.table)
          /\ phase' = IF r.kind = "Panic" THEN "panicked" ELSE "loaded"
          /\ last' = [op |-> "delete_partition", id |-> id, kind |-> r.kind,
                      pre |-> table[1].partitions, ret |-> <<>>]
    /\ nops' = nops + 1
    /\ UNCHANGED <<disk, options, first, reloaded, scenario, codecvars>>

\* next_id() and part_count()
Query ==
    /\ phase = "loaded"
    /\ last' = [op |-> "query", id |-> 0, kind |-> "Ok", pre |-> table[1].partitions,
                ret |-> <<next_id(table[1]), part_count(table[1])>>]
    /\ UNCHANGED <<disk, options, table, phase, first, reloaded, nops, scenario, codecvars>>

Write ==
    /\ phase = "loaded"
    /\ \E r \in {write(table[1], disk, options)} :
          /\ disk' = r.disk
          /\ phase' = IF r.kind = "Ok" THEN "written" ELSE "panicked"
          /\ last' = [op |-> "write", id |-> 0, kind |-> r.kind,
                      pre |-> table[1].partitions,
                      ret |-> r.emitted]
    /\ UNCHANGED <<options, table, first, reloaded, nops, scenario, codecvars>>

Reload ==
    /\ phase = "written"
    /\ reloaded' = Some(load(disk, options))
    /\ phase' = "reloaded"
    /\ UNCHANGED <<disk, options, table, last, first, nops, scenario, codecvars>>

Next ==
    \/ Load
    \/ \E id \in 0..MaxId, part \in {NewPart, NilPart} : SetPartition(id, part)
    \/ \E id \in 0..MaxId : DeletePartition(id)
    \/ Query
    \/ Write
    \/ Reload

Spec == Init /\ [][Next]_vars

---------------------------------------------------------------------------
(* Properties of Spec: load, mutate, write, load again *)

HasTable == phase \in {"loaded", "written", "reloaded", "panicked"}

Mutators == {"set_partition", "delete_partition"}

\* C1: for a table loaded from a well-formed image, write followed by load
\* (same stream, same options) succeeds and returns a table equal to the
\* first one in every field.
C1_RoundTrip ==
    (scenario.wellformed /\ nops = 0 /\ last.op = "write") =>
        /\ last.kind = "Ok"
        /\ phase = "reloaded" => (reloaded[1].kind = "Ok" /\ reloaded[1].val = first)

\* C2: set_partition/delete_partition return InvalidID exactly when id >= the
\* slot count (a slot count of 0 included); then they do not panic and leave
\* the table unchanged; when id < slot count they succeed and change only
\* slot id.
C2_InvalidID ==
    (HasTable /\ last.op \in Mutators) =>
        LET n == Len(last.pre)
            now == table[1].partitions
        IN /\ (last.kind = "InvalidID") <=> (last.id >= n)
           /\ last.id >= n => (last.kind # "Panic" /\ now = last.pre)
           /\ last.id < n =>
                 /\ last.kind = "Ok"
                 /\ Len(now) = n
                 /\ \A i \in 1..n : i # last.id + 1 => now[i] = last.pre[i]

\* C3: the slot count is fixed at load time: after any set_partition,
\* delete_partition and write calls, failing ones included, it equals the
\* count read from the header at load, and each copy write emits carries that
\* count in its header and that many 128-byte entries.
C3_SlotCountFixed ==
    HasTable =>
        /\ Len(table[1].partitions) = scenario.count
        /\ last.op = "write" =>
              \A i \in 1..Len(last.ret) :
                 /\ last.ret[i].count = scenario.count
                 /\ last.ret[i].bytes = 128 * scenario.count

\* a successful write of four slots after MaxOps calls, one of them refused
C3_Witness ==
    /\ phase = "written"
    /\ nops = MaxOps
    /\ scenario.count = 4
    /\ Len(last.ret) = 2
    /\ table[1].partitions # first[1].partitions

\* C4: no slot of a table holds a present entry whose type UUID is nil.
C4_NoNilPresent ==
    HasTable =>
        \A i \in 1..Len(table[1].partitions) :
           IsSome(table[1].partitions[i]) => ~is_nil(table[1].partitions[i][1].part_type)

\* C8: next_id returns the smallest index of an empty slot, None exactly when
\* every slot is occupied, and part_count is the number of present slots.
C8_NextId ==
    last.op = "query" =>
        LET ps == last.pre
            free == {i \in 0..(Len(ps) - 1) : ps[i + 1] = None}
            used == {i \in 0..(Len(ps) - 1) : ps[i + 1] # None}
        IN /\ free = {} <=> last.ret[1] = None
           /\ free # {} => (/\ Len(last.ret[1]) = 1
                            /\ last.ret[1][1] \in free
                            /\ \A j \in free : last.ret[1][1] <= j)
           /\ last.ret[2] = Cardinality(used)
           /\ last.ret[1] = None <=> last.ret[2] = Len(ps)

\* next_id on a table whose four slots were filled by two set_partition calls
C8_WitnessFull ==
    /\ last.op = "query"
    /\ nops = MaxOps
    /\ Len(last.pre) = 4
    /\ last.ret = <<None, 4>>

---------------------------------------------------------------------------
(* SpecCsum: one byte of the primary header or of the partition table of a *)
(* well-formed image is changed, the stored checksums are kept, then load  *)

\* the offsets of the 92 header bytes and of the bytes of the partition table
EditPositions ==
    {options.block_size + h : h \in 0..91}
    \cup {2 * options.block_size + a : a \in 0..(128 * scenario.count - 1)}

\* the byte at offset pos becomes val
CorruptByte(pos, val) ==
    /\ phase = "fresh"
    /\ disk[pos + 1] # val
    /\ disk' = Patch(disk, pos, <<val>>)
    /\ scenario' = [scenario EXCEPT !.edit = <<"byte", pos>>]
    /\ phase' = "staged"
    /\ UNCHANGED <<options, table, last, first, reloaded, nops, codecvars>>

InitCsum == InitWith({"four"}, BOOLEAN, BOOLEAN)

\* the new value is the old one plus one, or D8 (the high byte of a surrogate)
NextCsum ==
    \/ \E pos \in EditPositions :
          \E val \in {(disk[pos + 1] + 1) % 256, 216} : CorruptByte(pos, val)
    \/ Load

SpecCsum == InitCsum /\ [][NextCsum]_vars

ByteEdited == last.op = "load" /\ scenario.edit # <<>> /\ scenario.edit[1] = "byte"

---------------------------------------------------------------------------
(* SpecShort: the stream ends early, then load *)

\* the stream is cut to its first len bytes; len ranges over TruncMin..TruncMax
TruncMin == 500
TruncMax == 1540

Truncate(len) ==
    /\ phase = "fresh"
    /\ len < Len(disk)
    /\ disk' = SubSeq(disk, 1, len)
    /\ scenario' = [scenario EXCEPT !.edit = <<"truncate", len>>]
    /\ phase' = "staged"
    /\ UNCHANGED <<options, table, last, first, reloaded, nops, codecvars>>

InitShort == InitWith({"four"}, BOOLEAN, {FALSE})

NextShort ==
    \/ \E len \in TruncMin..TruncMax : Truncate(len)
    \/ Load

SpecShort == InitShort /\ [][NextShort]_vars

\* C6: whenever the stream supplies fewer bytes than load asked for (load
\* read up to an offset past the end of the stream), load fails with IOError.
C6_ShortReadIsIOError ==
    (last.op = "load" /\ last.ret[1] > Len(disk)) => last.kind = "IOError"

---------------------------------------------------------------------------
(* SpecStruct: header fields are given invalid values, then load *)

StructFields == {"magic", "revision", "hlen", "part_start", "part_size"}

\* the header hdr with the fields named in broken made invalid
BrokenHeader(hdr, broken) ==
    LET h1 == IF "magic" \in broken THEN Patch(hdr, 7, <<88>>) ELSE hdr
        h2 == IF "revision" \in broken THEN Patch(h1, 8, <<0, 0, 2, 0>>) ELSE h1
        h3 == IF "hlen" \in broken THEN Patch(h2, 12, LEBytes(93, 4)) ELSE h2
        h4 == IF "part_start" \in broken THEN Patch(h3, 72, LEBytes(3, 8)) ELSE h3
    IN IF "part_size" \in broken THEN Patch(h4, 84, LEBytes(64, 4)) ELSE h4

\* the fields in broken are made invalid; with fix the header checksum is
\* recomputed, without it the stored one is kept
BreakFields(broken, fix) ==
    /\ phase = "fresh"
    /\ disk' = LET bs == options.block_size
                   h == BrokenHeader(Slice(disk, bs, 92), broken)
                   hdr == IF fix THEN Patch(h, 16, CRC32(Patch(h, 16, <<0, 0, 0, 0>>)))
                          ELSE h
               IN Patch(disk, bs, hdr)
    /\ scenario' = [scenario EXCEPT !.edit = <<"fields", broken, fix>>]
    /\ phase' = "staged"
    /\ UNCHANGED <<options, table, last, first, reloaded, nops, codecvars>>

InitStruct == InitWith({"four"}, BOOLEAN, BOOLEAN)

NextStruct ==
    \/ \E broken \in SUBSET StructFields, fix \in BOOLEAN : BreakFields(broken, fix)
    \/ Load

SpecStruct == InitStruct /\ [][NextStruct]_vars

\* C7: load reports the first failing check in the order magic (NoTable),
\* revision (InvalidVersion), header length, partition table start, entry
\* size (InvalidHeader), for every setting of ignore_csum and
\* ignore_utf16_errors, having read no further than the failing field; a
\* structurally invalid image never gives ChecksumError or a table.
C7_StructuralOrder ==
    last.op = "load" =>
        LET bs == options.block_size
            magic_bad == Slice(disk, bs, 8) # <<69, 70, 73, 32, 80, 65, 82, 84>>
            rev_bad == Slice(disk, bs + 8, 4) # <<0, 0, 1, 0>>
            hlen_bad == Slice(disk, bs + 12, 4) # <<92, 0, 0, 0>>
            start_bad == Slice(disk, bs + 72, 8) # <<2, 0, 0, 0, 0, 0, 0, 0>>
            size_bad == Slice(disk, bs + 84, 4) # <<128, 0, 0, 0>>
            got == <<last.kind, last.ret[1] - bs>>
        IN IF magic_bad THEN got = <<"NoTable", 8>>
           ELSE IF rev_bad THEN got = <<"InvalidVersion", 12>>
           ELSE IF hlen_bad THEN got = <<"InvalidHeader", 16>>
           ELSE IF start_bad THEN got = <<"InvalidHeader", 80>>
           ELSE IF size_bad THEN got = <<"InvalidHeader", 88>>
           ELSE last.kind \in {"Ok", "ChecksumError"}

\* header length and entry size both invalid, the header checksum made right,
\* checksums ignored: the header length is reported
C7_WitnessOrder ==
    /\ last.op = "load"
    /\ scenario.edit = <<"fields", {"hlen", "part_size"}, TRUE>>
    /\ options.ignore_csum
    /\ last.kind = "InvalidHeader"

---------------------------------------------------------------------------
(* SpecUuid: write_uuid then read_uuid, and read_uuid then write_uuid *)

UuidInputs == {UuidPattern(a, b) : a \in 0..MaxUuidA, b \in 0..MaxUuidB}

InitUuid ==
    /\ GptIdle
    /\ cin \in UuidInputs
    /\ cwire = <<>>
    /\ cout = <<>>
    /\ cstage = "uuid"

\* write_uuid(cin)
UuidEncode ==
    /\ cstage = "uuid"
    /\ cwire' = write_uuid(cin)
    /\ cstage' = "written"
    /\ UNCHANGED <<cin, cout, gptvars>>

\* read_uuid of what write_uuid wrote
UuidDecode ==
    /\ cstage = "written"
    /\ cout' = read_uuid(cwire)
    /\ cstage' = "written-read"
    /\ UNCHANGED <<cin, cwire, gptvars>>

\* read_uuid(cin), cin taken as the bytes of a stream
UuidParse ==
    /\ cstage = "uuid"
    /\ cwire' = read_uuid(cin)
    /\ cstage' = "read"
    /\ UNCHANGED <<cin, cout, gptvars>>

\* write_uuid of what read_uuid returned
UuidReencode ==
    /\ cstage = "read"
    /\ cout' = write_uuid(cwire)
    /\ cstage' = "read-written"
    /\ UNCHANGED <<cin, cwire, gptvars>>

NextUuid == UuidEncode \/ UuidDecode \/ UuidParse \/ UuidReencode

SpecUuid == InitUuid /\ [][NextUuid]_vars

\* bytes [0,4), [4,6), [6,8) reversed, bytes [8,16) as they are
Reversed468(u) ==
    <<u[4], u[3], u[2], u[1], u[6], u[5], u[8], u[7],
      u[9], u[10], u[11], u[12], u[13], u[14], u[15], u[16]>>

\* C9: read_uuid(write_uuid(u)) = u and write_uuid(read_uuid(b)) = b for
\* every 16-byte value, the nil UUID included, and each of the two reverses
\* bytes [0,4), [4,6), [6,8) and leaves bytes [8,16) unchanged.
C9_UuidInvolution ==
    /\ cstage \in {"written", "read", "written-read", "read-written"} =>
          cwire = Reversed468(cin)
    /\ cstage \in {"written-read", "read-written"} => cout = cin

\* a UUID whose first eight bytes differ pairwise went through both codecs
C9_WitnessRoundTrip ==
    /\ cstage = "written-read"
    /\ cin = UuidPattern(1, 1)
    /\ cwire # cin
    /\ cout = cin

---------------------------------------------------------------------------
(* SpecName: write_utf16_le then read_utf16_le *)

\* U+1F600, a character of two UTF-16 code units; e-acute; NUL
NameChars == {97, 0, 233, 128512}

\* len characters, all "a" but the one at position at
NameOf(len, c, at) == [i \in 1..len |-> IF i = at THEN c ELSE 97]

NameInputs ==
    {NameOf(len, c, at) : len \in 0..MaxNameLen, c \in NameChars, at \in {1, 18, 36}}

InitName ==
    /\ GptIdle
    /\ cin \in NameInputs
    /\ cwire = <<>>
    /\ cout = <<>>
    /\ cstage = "name"

\* write_utf16_le(cin)
NameEncode ==
    /\ cstage = "name"
    /\ cwire' = write_utf16_le(cin)
    /\ cstage' = "written"
    /\ UNCHANGED <<cin, cout, gptvars>>

\* read_utf16_le of what write_utf16_le wrote, UTF-16 errors not ignored
NameDecode ==
    /\ cstage = "written"
    /\ cout' = read_utf16_le(cwire, FALSE)
    /\ cstage' = "written-read"
    /\ UNCHANGED <<cin, cwire, gptvars>>

NextName == NameEncode \/ NameDecode

SpecName == InitName /\ [][NextName]_vars

\* the first 36 code units of the name
Kept(name) == Take(encode_utf16(name), 36)

\* C10: write_utf16_le emits 72 bytes, the first 36 UTF-16 code units of the
\* name followed by zero padding, and read_utf16_le of them succeeds and
\* returns the name cut to its first 36 code units and at its first NUL.
C10_NameRoundTrip ==
    /\ cstage \in {"written", "written-read"} =>
          /\ Len(cwire) = 72
          /\ \A i \in 1..36 :
                cwire[2 * i - 1] + 256 * cwire[2 * i]
                   = (IF i <= Len(Kept(cin)) THEN Kept(cin)[i] ELSE 0)
    /\ cstage = "written-read" =>
          /\ IsSome(cout)
          /\ encode_utf16(cout[1]) = CutAtNul(Kept(cin))

---------------------------------------------------------------------------
(* The MBR codec (src/src/mbr.rs).  A u32 is the record of its two 16-bit   *)
(* halves, [hi, lo], of value 65536 * hi + lo.                              *)

\* ReadBytesExt::read_u32::<LittleEndian> of four bytes
read_u32_le(b) == [hi |-> b[3] + 256 * b[4], lo |-> b[1] + 256 * b[2]]

\* WriteBytesExt::write_u32::<LittleEndian>
write_u32_le(v) == <<v.lo % 256, v.lo \div 256, v.hi % 256, v.hi \div 256>>

U32Zero == [hi |-> 0, lo |-> 0]

\* a + b on u32: the wrapped sum and whether it overflowed
u32_add(a, b) ==
    LET lo == a.lo + b.lo
        hi == a.hi + b.hi + lo \div 65536
    IN [val |-> [hi |-> hi % 65536, lo |-> lo % 65536], overflow |-> hi >= 65536]

\* a - 1 on u32: the wrapped difference and whether it overflowed
u32_dec(a) ==
    IF a.lo > 0 THEN [val |-> [a EXCEPT !.lo = a.lo - 1], overflow |-> FALSE]
    ELSE IF a.hi > 0 THEN [val |-> [hi |-> a.hi - 1, lo |-> 65535], overflow |-> FALSE]
    ELSE [val |-> [hi |-> 65535, lo |-> 65535], overflow |-> TRUE]

\* a | b on bytes
Or8(a, b) ==
    LET or(k) == IF Bit(a, k) + Bit(b, k) > 0 THEN k ELSE 0
    IN or(1) + or(2) + or(4) + or(8) + or(16) + or(32) + or(64) + or(128)

\* offset_to_chs: the three bytes it leaves in buf
offset_to_chs(offset) ==
    LET c == offset.lo % 1024
        offset1 == 64 * offset.hi + offset.lo \div 1024
        h == offset1 % 256
        offset2 == offset1 \div 256
        s == IF offset2 > 63 THEN offset2 ELSE 63
    IN << h, Or8(s % 256, 64 * ((c \div 256) % 4)), c % 256 >>

\* PartitionEntry::default()
mbr_entry_default ==
    [bootable |-> FALSE, system_id |-> 0, start_lba |-> U32Zero, sector_count |-> U32Zero]

\* a faulty variant of the load below: a system id of 0 is a present entry
mbr_entry_load_keep(d, pos) ==
    IF ~ExactOK(d, pos, 16) THEN Err("IOError", pos + 16)
    ELSE Ok(Some([bootable |-> d[pos + 1] = 128, system_id |-> d[pos + 5],
                  start_lba |-> read_u32_le(Slice(d, pos + 8, 4)),
                  sector_count |-> read_u32_le(Slice(d, pos + 12, 4))]), pos + 16)

\* PartitionEntry::load at stream position pos: Ok(Option<PartitionEntry>)
\* or the I/O error of a read_exact that falls short
mbr_entry_load(d, pos) ==
    IF ~ExactOK(d, pos, 16) THEN Err("IOError", pos + 16)
    ELSE IF d[pos + 5] # 0
         THEN Ok(Some([bootable |-> d[pos + 1] = 128, system_id |-> d[pos + 5],
                       start_lba |-> read_u32_le(Slice(d, pos + 8, 4)),
                       sector_count |-> read_u32_le(Slice(d, pos + 12, 4))]), pos + 16)
         ELSE Ok(None, pos + 16)

\* MBR::load: read() of the bootloader tolerates a short stream, the entries
\* and the signature are read with read_exact
mbr_load(d) ==
    LET at == ReadLen(d, 0, 446)
        e == [i \in 0..3 |-> mbr_entry_load(d, at + 16 * i)]
    IN IF \E i \in 0..3 : e[i].kind # "Ok" THEN Err("IOError", at + 64)
       ELSE IF ~ExactOK(d, at + 64, 2) THEN Err("IOError", at + 66)
       ELSE Ok([bootloader |-> ReadBuf(d, 0, 446),
                partitions |-> [i \in 1..4 |-> e[i - 1].val[1]],
                boot_sig |-> d[at + 65] + 256 * d[at + 66]], at + 66)

\* MBR::default()
mbr_default ==
    [bootloader |-> Zeros(446), partitions |-> [i \in 1..4 |-> None], boot_sig |-> 0]

\* MBR::partition_count
partition_count(self) == Cardinality({i \in 1..4 : IsSome(self.partitions[i])})

\* PartitionEntry::write: the bytes handed to the stream and whether the
\* call returned or panicked on `sector_count + start_lba - 1`; checked is
\* whether the build traps integer overflow (debug) or wraps (release)
mbr_entry_write(self, checked) ==
    LET sum == u32_add(self.sector_count, self.start_lba)
        last_lba == u32_dec(sum.val)
        head == << IF self.bootable THEN 128 ELSE 0 >> \o offset_to_chs(self.start_lba)
                \o << self.system_id >>
    IN IF checked /\ (sum.overflow \/ last_lba.overflow)
       THEN [kind |-> "Panic", bytes |-> head]
       ELSE [kind |-> "Ok",
             bytes |-> head \o offset_to_chs(last_lba.val)
                       \o write_u32_le(self.start_lba) \o write_u32_le(self.sector_count)]

\* the entries written one after the other from slot i on, up to a panic
RECURSIVE mbr_entries_write(_, _, _)
mbr_entries_write(partitions, i, checked) ==
    IF i > 4 THEN [kind |-> "Ok", bytes |-> <<>>]
    ELSE LET p == IF IsSome(partitions[i]) THEN partitions[i][1] ELSE mbr_entry_default
             w == mbr_entry_write(p, checked)
             rest == mbr_entries_write(partitions, i + 1, checked)
         IN IF w.kind # "Ok" THEN w
            ELSE [kind |-> rest.kind, bytes |-> w.bytes \o rest.bytes]

\* MBR::write_mbr: the stream afterwards
write_mbr(self, d, checked) ==
    LET w == mbr_entries_write(self.partitions, 1, checked)
        out == self.bootloader \o w.bytes
    IN IF w.kind # "Ok" THEN [kind |-> "Panic", disk |-> WriteAt(d, 0, out)]
       ELSE [kind |-> "Ok", disk |-> WriteAt(d, 0, out \o <<85, 170>>)]

---------------------------------------------------------------------------
(* The MBR caller: MBR::new() or MBR::load of a 512-byte image, then        *)
(* partition_count, then write_mbr to the same stream.                     *)

\* on-disk entries: zeroed; system id 0 with every other field set; a
\* bootable Linux partition; a protective entry whose end overflows u32; a
\* boot flag that is neither 0x00 nor 0x80
MbrEntries ==
    { Zeros(16),
      <<128, 1, 1, 0, 0, 254, 255, 255, 1, 0, 0, 0, 16, 0, 0, 0>>,
      <<128, 32, 33, 0, 131, 170, 40, 32, 0, 8, 0, 0, 0, 0, 16, 0>>,
      <<0, 0, 2, 0, 238, 255, 255, 255, 1, 0, 0, 0, 255, 255, 255, 255>>,
      <<1, 0, 0, 0, 7, 0, 0, 0, 120, 86, 52, 18, 0, 0, 0, 0>> }

MbrSignatures == { <<85, 170>>, <<0, 0>>, <<170, 85>> }

MbrBootloaders == { Zeros(446), [i \in 1..446 |-> (7 * i) % 256] }

InitMbr ==
    /\ \E b \in MbrBootloaders, e1 \in MbrEntries, e2 \in MbrEntries,
          e3 \in MbrEntries, e4 \in MbrEntries, sig \in MbrSignatures :
          disk = b \o e1 \o e2 \o e3 \o e4 \o sig
    /\ options = DefaultOptions(512)
    /\ scenario = [name |-> "mbr", wellformed |-> FALSE, count |-> 0, edit |-> <<>>]
    /\ table = None
    /\ first = None
    /\ reloaded = None
    /\ phase = "fresh"
    /\ last = NoCall
    /\ nops = 0
    /\ CodecIdle

MbrNew ==
    /\ phase = "fresh"
    /\ table' = Some(mbr_default)
    /\ phase' = "loaded"
    /\ last' = [op |-> "mbr_new", id |-> 0, kind |-> "Ok", pre |-> <<>>, ret |-> <<>>]
    /\ UNCHANGED <<disk, options, first, reloaded, nops, scenario, codecvars>>

MbrLoad ==
    /\ phase = "fresh"
    /\ \E r \in {mbr_load(disk)} :
          /\ table' = r.val
          /\ first' = r.val
          /\ phase' = IF r.kind = "Ok" THEN "loaded" ELSE "failed"
          /\ last' = [op |-> "mbr_load", id |-> 0, kind |-> r.kind, pre |-> <<>>,
                      ret |-> <<r.need>>]
    /\ UNCHANGED <<disk, options, reloaded, nops, scenario, codecvars>>

MbrQuery ==
    /\ phase = "loaded"
    /\ last.op # "partition_count"
    /\ last' = [op |-> "partition_count", id |-> 0, kind |-> "Ok",
                pre |-> table[1].partitions, ret |-> <<partition_count(table[1])>>]
    /\ UNCHANGED <<disk, options, table, phase, first, reloaded, nops, scenario, codecvars>>

\* checked: the build traps integer overflow (debug) or wraps (release)
MbrWrite(checked) ==
    /\ phase = "loaded"
    /\ \E r \in {write_mbr(table[1], disk, checked)} :
          /\ disk' = r.disk
          /\ phase' = IF r.kind = "Ok" THEN "written" ELSE "panicked"
          /\ last' = [op |-> "write_mbr", id |-> 0, kind |-> r.kind,
                      pre |-> table[1].partitions, ret |-> <<checked>>]
    /\ UNCHANGED <<options, table, first, reloaded, nops, scenario, codecvars>>

NextMbr ==
    \/ MbrNew
    \/ MbrLoad
    \/ MbrQuery
    \/ \E checked \in BOOLEAN : MbrWrite(checked)

SpecMbr == InitMbr /\ [][NextMbr]_vars

\* the 16 bytes of on-disk entry i (0..3)
MbrSlot(d, i) == Slice(d, 446 + 16 * i, 16)

\* the table was loaded from the stream and the stream is as it was
MbrLoaded == phase = "loaded" /\ IsSome(first)

\* C11: MBR::load of a 512-byte image succeeds whatever the signature is;
\* slot i is empty exactly when the system-id byte of on-disk entry i is 0
\* and otherwise is a present entry with that system id, bootable = (byte 0
\* = 0x80) and the little-endian start LBA and sector count; partition_count
\* is the number of entries with a non-zero system id.
C11_MbrLoad ==
    /\ (last.op = "mbr_load" /\ Len(disk) = 512) =>
          /\ last.kind = "Ok"
          /\ \A i \in 0..3 :
                LET e == MbrSlot(disk, i)
                    p == table[1].partitions[i + 1]
                IN /\ IsNone(p) <=> e[5] = 0
                   /\ e[5] # 0 =>
                        p = Some([bootable |-> e[1] = 128, system_id |-> e[5],
                                  start_lba |-> [hi |-> e[11] + 256 * e[12],
                                                 lo |-> e[9] + 256 * e[10]],
                                  sector_count |-> [hi |-> e[15] + 256 * e[16],
                                                    lo |-> e[13] + 256 * e[14]]])
    /\ (MbrLoaded /\ last.op = "partition_count") =>
          last.ret[1] = Cardinality({i \in 0..3 : MbrSlot(disk, i)[5] # 0})

\* an image whose four entries have system id 0 but are not all zero, with
\* an invalid signature, was loaded and counted: no partition, four empty slots
C11_WitnessEmpty ==
    /\ MbrLoaded /\ last.op = "partition_count"
    /\ last.ret[1] = 0
    /\ \A i \in 1..4 : IsNone(table[1].partitions[i])
    /\ \E i \in 0..3 : MbrSlot(disk, i) # Zeros(16)
    /\ Slice(disk, 510, 2) # <<85, 170>>

\* C12: write_mbr completes, writes sixteen zero bytes for every empty slot
\* and leaves the 446-byte bootstrap region equal to the bootloader held.
C12_EmptySlotZeroed ==
    last.op = "write_mbr" =>
        /\ last.kind = "Ok"
        /\ \A i \in 0..3 : IsNone(last.pre[i + 1]) => MbrSlot(disk, i) = Zeros(16)
        /\ Slice(disk, 0, 446) = table[1].bootloader

---------------------------------------------------------------------------
(* Properties of GPTTable::write under Spec: where the copies go *)

\* the 92 header bytes the stream holds at a block
HeaderAt(d, bs, block) == Slice(d, block * bs, 92)

\* the stored checksum of a header is the CRC-32 of its 92 bytes with the
\* checksum field zeroed
SelfChecked(h) == Slice(h, 16, 4) = CRC32(Patch(h, 16, <<0, 0, 0, 0>>))

\* the array checksum of a header is the CRC-32 of the n entries the stream
\* holds at the block the header names
ArrayChecked(d, bs, h, n) ==
    /\ LEValue(Slice(h, 72, 8)) * bs + n * 128 <= Len(d)
    /\ Slice(h, 88, 4) = CRC32(Slice(d, LEValue(Slice(h, 72, 8)) * bs, n * 128))

\* C13: when n*128 is a multiple of block_size, write puts the backup
\* partition-entry array at block backup_gpt - n*128/block_size and records
\* that block in the backup header; otherwise the write aborts.
C13_BackupArrayBlock ==
    last.op = "write" =>
        LET n == Len(last.pre)
            bs == options.block_size
            t == table[1]
        IN IF (n * 128) % bs = 0
           THEN /\ last.kind = "Ok"
                /\ last.ret[2].at = t.backup_gpt - (n * 128) \div bs
                /\ LEValue(Slice(HeaderAt(disk, bs, t.backup_gpt), 72, 8))
                      = t.backup_gpt - (n * 128) \div bs
           ELSE last.kind = "Panic"

\* C14: after write returns Ok the stream holds the primary header at block
\* primary_gpt and the backup header at block backup_gpt, each with a valid
\* checksum of its own and of the entry array at the block it names, the
\* location fields of the backup are those of the primary swapped, the two
\* arrays are equal, and the primary header and array are as the primary
\* write left them.
C14_Mirroring ==
    (last.op = "write" /\ last.kind = "Ok") =>
        LET n == Len(last.pre)
            bs == options.block_size
            t == table[1]
            h1 == HeaderAt(disk, bs, t.primary_gpt)
            h2 == HeaderAt(disk, bs, t.backup_gpt)
        IN /\ SelfChecked(h1) /\ SelfChecked(h2)
           /\ ArrayChecked(disk, bs, h1, n) /\ ArrayChecked(disk, bs, h2, n)
           /\ LEValue(Slice(h1, 24, 8)) = t.primary_gpt
           /\ LEValue(Slice(h1, 32, 8)) = t.backup_gpt
           /\ Slice(h2, 24, 8) = Slice(h1, 32, 8)
           /\ Slice(h2, 32, 8) = Slice(h1, 24, 8)
           /\ Slice(disk, LEValue(Slice(h1, 72, 8)) * bs, n * 128)
                 = Slice(disk, LEValue(Slice(h2, 72, 8)) * bs, n * 128)
           /\ h1 = last.ret[1].hdr
           /\ Slice(disk, last.ret[1].at * bs, n * 128) = last.ret[1].tab

=============================================================================
